---------------------------- MODULE Spec2Model ----------------------------
(***************************************************************************)
(* A model of html_tools.py (auteur): the extraction of the publication    *)
(* date, of the article preview, the rendering of a post and the assembly  *)
(* of the landing page.                                                    *)
(*                                                                         *)
(* A Python string is modelled as a sequence of tokens.  A token is a      *)
(* TLA+ string that stands for the very characters it spells: a literal    *)
(* that the code searches for or inserts ("<p>", "</h1>", ...) is one      *)
(* token, and everything else is a one-character token ("x", " ", "\n",    *)
(* ">", "=").  No literal the code searches for can straddle two tokens    *)
(* of the alphabets used here, so that a search over characters and the    *)
(* search over tokens find the same matches.                               *)
(***************************************************************************)
EXTENDS Integers, Sequences, FiniteSets, TLC

VARIABLES
    listing,    \* what read_listing_file returns: a sequence of article ids
    article,    \* the Article object handed to the operations
    files,      \* what read_complete_file returns for each article's html_path
    posts,      \* the strings generate_post has returned to the caller, in order
    last        \* the outcome of the last operation: what it returned or raised

vars == <<listing, article, files, posts, last>>

-----------------------------------------------------------------------------
(* Bounds of the model.                                                    *)

\* Longest html handed to extract_pub_date.
MaxPubLen == 5
\* Longest article text handed to extract_article_preview.
MaxTextLen == 5
\* Longest article html handed to generate_post when the html is enumerated.
MaxHtmlLen == 4
\* Number of articles known to the site.
NArticles == 3
\* Longest listing.
MaxListing == 3
\* How many times the caller renders the same article.
MaxRenders == 2

-----------------------------------------------------------------------------
(* Tokens.                                                                 *)

NL == "\n"
SP == " "
H2_TITLE == "<h2 class=\"article_title\">"
A_HREF == "<a href=\""
QUOTE_GT == "\">"
SUBTITLE == "<p class=\"article_subtitle\">"

\* Tokens that are whitespace for \s and str.strip().
IsSpace(t) == t \in {SP, NL}

\* Tokens whose first character is '<'.
StartsLT(t) ==
    t \in {"<", "<p>", "</p>", "<h1>", "</h1>", "<h2>", "</h2>", "<em>", "</a>",
           "<figure>", "</figure>", "<Published", H2_TITLE, A_HREF, SUBTITLE}

\* Tokens of more than one character whose last character is '>'.
LongGT ==
    {"<p>", "</p>", "<h1>", "</h1>", "<h2>", "</h2>", "<em>", "</a>",
     "<figure>", "</figure>", H2_TITLE, QUOTE_GT, SUBTITLE}

\* Tokens whose last character is '>'.
EndsGT(t) == t \in LongGT \cup {">"}

-----------------------------------------------------------------------------
(* Python's str and re operations, over token sequences.                   *)

\* An optional value: Python's None, or a string.
None == [none |-> TRUE, val |-> <<>>]
Some(s) == [none |-> FALSE, val |-> s]

\* The elements of a sequence.
Range(f) == {f[i] : i \in DOMAIN f}

\* All strings over an alphabet, up to a length.
StringsUpTo(alphabet, n) == UNION {[1..k -> alphabet] : k \in 0..n}

\* s[i:j], 1-based and inclusive; empty when j < i.
Slice(s, i, j) == IF j < i THEN <<>> ELSE SubSeq(s, i, j)

\* Whether sub occurs in s at position i.
OccursAt(s, sub, i) ==
    /\ i >= 1
    /\ i + Len(sub) - 1 <= Len(s)
    /\ SubSeq(s, i, i + Len(sub) - 1) = sub

\* str.find: the first position >= from where sub occurs, or 0.
RECURSIVE Find(_, _, _)
Find(s, sub, from) ==
    IF from + Len(sub) - 1 > Len(s) THEN 0
    ELSE IF OccursAt(s, sub, from) THEN from
    ELSE Find(s, sub, from + 1)

\* str.replace(sub, rep): every non-overlapping occurrence, left to right.
RECURSIVE Replace(_, _, _)
Replace(s, sub, rep) ==
    IF sub = <<>> THEN s
    ELSE LET i == Find(s, sub, 1) IN
         IF i = 0 THEN s
         ELSE Slice(s, 1, i - 1) \o rep
              \o Replace(Slice(s, i + Len(sub), Len(s)), sub, rep)

\* str.split(sep) for a one-token separator: always at least one fragment.
RECURSIVE Split(_, _)
Split(s, sep) ==
    LET i == Find(s, <<sep>>, 1) IN
    IF i = 0 THEN <<s>>
    ELSE <<Slice(s, 1, i - 1)>> \o Split(Slice(s, i + 1, Len(s)), sep)

\* sep.join(list).
RECURSIVE Join(_, _)
Join(list, sep) ==
    IF list = <<>> THEN <<>>
    ELSE IF Len(list) = 1 THEN list[1]
    ELSE list[1] \o sep \o Join(Tail(list), sep)

\* str.lstrip() and str.strip().
RECURSIVE LStrip(_)
LStrip(s) == IF s # <<>> /\ IsSpace(s[1]) THEN LStrip(Tail(s)) ELSE s

RECURSIVE RStrip(_)
RStrip(s) ==
    IF s # <<>> /\ IsSpace(s[Len(s)]) THEN RStrip(Slice(s, 1, Len(s) - 1)) ELSE s

Strip(s) == RStrip(LStrip(s))

\* s[::-1].
Reverse(s) == [i \in 1..Len(s) |-> s[Len(s) + 1 - i]]

\* A pattern 'open.+?close' of re, as the tokens it can match: open, the
\* tokens the match starts with; close1, the tokens that end the match after
\* a gap of one token or more; close0, the tokens that end it after any gap,
\* because the token itself, or the opening one, has the character .+? needs;
\* dotall, whether '.' matches a newline.
Pattern(open, close1, close0, dotall) ==
    [open |-> open, close1 |-> close1, close0 |-> close0, dotall |-> dotall]

\* The end of the lazy gap that starts at position from: the first position
\* j >= from of a token that closes the match, with no newline in the gap
\* unless dotall; 0 when there is none.
RECURSIVE LazyEnd(_, _, _, _)
LazyEnd(s, from, j, pattern) ==
    IF j > Len(s) THEN 0
    ELSE IF s[j] \in pattern.close0 \/ (s[j] \in pattern.close1 /\ j - from >= 1) THEN j
    ELSE IF ~pattern.dotall /\ s[j] = NL THEN 0
    ELSE LazyEnd(s, from, j + 1, pattern)

\* re.search(pattern, s): the leftmost match as <<first, last>>, or <<0, 0>>.
RECURSIVE SearchFrom(_, _, _)
SearchFrom(s, i, pattern) ==
    IF i > Len(s) THEN <<0, 0>>
    ELSE LET j == IF s[i] \in pattern.open
                  THEN LazyEnd(s, i + 1, i + 1, pattern) ELSE 0 IN
         IF j # 0 THEN <<i, j>>
         ELSE SearchFrom(s, i + 1, pattern)

\* re.sub(pattern, '', s): every non-overlapping match removed.
RECURSIVE SubAll(_, _)
SubAll(s, pattern) ==
    LET m == SearchFrom(s, 1, pattern) IN
    IF m[1] = 0 THEN s
    ELSE Slice(s, 1, m[1] - 1) \o SubAll(Slice(s, m[2] + 1, Len(s)), pattern)

-----------------------------------------------------------------------------
(* extract_pub_date                                                        *)

\* The number of whitespace tokens of s from position i on.
RECURSIVE SpaceRun(_, _)
SpaceRun(s, i) ==
    IF i <= Len(s) /\ IsSpace(s[i]) THEN 1 + SpaceRun(s, i + 1) ELSE 0

\* '.+?>' of extract_pub_date: a token that ends in '>' closes the match
\* when at least one character comes before that '>', in the gap or in the
\* token itself.
PUB_VALUE_RE == Pattern({"<Published"}, {">"}, LongGT, FALSE)

\* \s*.+?> after the '=' at position eq: \s* is greedy and gives back one
\* whitespace at a time, from w whitespaces down to none.
RECURSIVE AfterEquals(_, _, _)
AfterEquals(s, eq, w) ==
    LET j == LazyEnd(s, eq + 1 + w, eq + 1 + w, PUB_VALUE_RE) IN
    IF j # 0 THEN j
    ELSE IF w = 0 THEN 0
    ELSE AfterEquals(s, eq, w - 1)

\* The last position of a match of <Published\s*=\s*.+?> that starts at i,
\* or 0.
PubMatchAt(s, i) ==
    IF s[i] # "<Published" THEN 0
    ELSE LET eq == i + 1 + SpaceRun(s, i + 1) IN
         IF eq > Len(s) \/ s[eq] # "=" THEN 0
         ELSE AfterEquals(s, eq, SpaceRun(s, eq + 1))

RECURSIVE PubSearch(_, _)
PubSearch(s, i) ==
    IF i > Len(s) THEN None
    ELSE LET j == PubMatchAt(s, i) IN
         IF j # 0 THEN Some(SubSeq(s, i, j)) ELSE PubSearch(s, i + 1)

\* extract_pub_date(html): re.search(...).group(0), or None.
extract_pub_date(html) == PubSearch(html, 1)

-----------------------------------------------------------------------------
(* The collaborators: the listing, the articles' fields, the page template *)
(* and the configuration.                                                  *)

Ids == 1..NArticles

\* Article.target of each article, a path relative to the site's root.
Targets == <<"a.html", "b.html", "c.html", "d.html", "e.html", "f.html">>
Target(i) == Targets[i]

\* Article.title of each article of the listing.
Titles == <<"Title A", "Title B", "Title C", "Title D", "Title E", "Title F">>
Title(i) == Titles[i]

\* Article.human_readable_pub_date.
HumanReadablePubDate == <<"January 01, 2016">>

\* find_article_index(article, listing): the index of the article in the
\* listing, or 0 where the code raises ValueError.
RECURSIVE IndexFrom(_, _, _)
IndexFrom(id, lst, k) ==
    IF k > Len(lst) THEN 0
    ELSE IF lst[k] = id THEN k
    ELSE IndexFrom(id, lst, k + 1)

find_article_index(id, lst) == IndexFrom(id, lst, 1)

\* The page template file, with the placeholders it recognizes.
PageTemplate ==
    <<"<title>", "{article_title}", "</title>", "{style_sheet}", "{rss_feed_path}",
      "{blog_title}", "{blog_subtitle}", "<nav>", "{home_page_link}", "{nav_bar}",
      "</nav>", "{article_content}", "<footer>", "{last_updated}", "{current_year}",
      "{owner}", "{email_address}", "{root_url}", "</footer>">>

\* get_configuration() and datetime.date.today(), as the template's fields.
Configuration ==
    [p \in {"{blog_title}", "{blog_subtitle}", "{owner}", "{email_address}",
            "{rss_feed_path}", "{style_sheet}", "{root_url}", "{last_updated}",
            "{current_year}"} |->
        CASE p = "{blog_title}" -> <<"Recursive Descent">>
          [] p = "{blog_subtitle}" -> <<"subtitle">>
          [] p = "{owner}" -> <<"owner">>
          [] p = "{email_address}" -> <<"owner@example.com">>
          [] p = "{rss_feed_path}" -> <<"feed.xml">>
          [] p = "{style_sheet}" -> <<"style.css">>
          [] p = "{root_url}" -> <<"http://example.com">>
          [] p = "{last_updated}" -> <<"Last updated: ", "November 01, 2026">>
          [] p = "{current_year}" -> <<"2026">>]

\* str.format: every placeholder replaced by its field's value.
RECURSIVE Format(_, _)
Format(template, fields) ==
    IF template = <<>> THEN <<>>
    ELSE (IF template[1] \in DOMAIN fields
          THEN fields[template[1]] ELSE <<template[1]>>)
         \o Format(Tail(template), fields)

\* _ARTICLE_TITLE_TEMPLATE.format(...)
ArticleTitleHtml(article_title, article_subtitle, article_path) ==
    <<H2_TITLE, A_HREF>> \o article_path \o <<QUOTE_GT>> \o article_title
    \o <<"</a>", SUBTITLE>> \o article_subtitle \o <<"</p>", "</h2>">>

-----------------------------------------------------------------------------
(* extract_article_preview                                                 *)

\* CollectIntro without the test of the paragraph's first character.
RECURSIVE CollectIntro_KeepTags(_, _, _)
CollectIntro_KeepTags(paragraphs, k, intro_text_list) ==
    IF k > Len(paragraphs) \/ Len(intro_text_list) > 2
    THEN [ok |-> TRUE, list |-> intro_text_list]
    ELSE IF Strip(paragraphs[k]) = <<>>
    THEN [ok |-> FALSE, list |-> intro_text_list]
    ELSE CollectIntro_KeepTags(paragraphs, k + 1, Append(intro_text_list, paragraphs[k]))

\* The loop over the paragraphs: intro_text_list after it, or the IndexError
\* that paragraph.strip()[0] raises on a paragraph of whitespace alone.
RECURSIVE CollectIntro(_, _, _)
CollectIntro(paragraphs, k, intro_text_list) ==
    IF k > Len(paragraphs) \/ Len(intro_text_list) > 2
    THEN [ok |-> TRUE, list |-> intro_text_list]
    ELSE IF Strip(paragraphs[k]) = <<>>
    THEN [ok |-> FALSE, list |-> intro_text_list]
    ELSE IF ~StartsLT(Strip(paragraphs[k])[1])
    THEN CollectIntro(paragraphs, k + 1, Append(intro_text_list, paragraphs[k]))
    ELSE CollectIntro(paragraphs, k + 1, intro_text_list)

\* intro_text = '<p>'.join(intro_text_list)
JoinIntro(intro_text_list) == Join(intro_text_list, <<"<p>">>)

\* The characters of a token in reverse, for the tokens of more than one
\* character that an article's text is made of.
ReverseToken(t) ==
    CASE t = "</p>" -> ">p/<"
      [] t = "<p>" -> ">p<"
      [] t = "<h1>" -> ">1h<"
      [] t = "</h1>" -> ">1h/<"
      [] t = "<figure>" -> ">erugif<"
      [] t = "</figure>" -> ">erugif/<"
      [] OTHER -> t

ReverseText(s) == [i \in 1..Len(s) |-> ReverseToken(s[Len(s) + 1 - i])]

\* TagIndex with the search run on the text itself, not on its reverse.
TagIndex_NotReversed(intro_text) ==
    LET i == Find(intro_text, <<"</p>">>, 1) IN
    IF i = 0 THEN 0 ELSE Len(intro_text) - i + 1

\* reverse_text.index('>p/<') + 4, counted in tokens: the 4 characters of
\* '</p>' are one token.  0 where index raises ValueError.
TagIndex(intro_text) ==
    LET i == Find(ReverseText(intro_text), <<">p/<">>, 1) IN
    IF i = 0 THEN 0 ELSE (i - 1) + 1

\* intro_text[:-tag_index]
StripTrailingTag(intro_text) ==
    Slice(intro_text, 1, Len(intro_text) - TagIndex(intro_text))

\* re.search('<figure>.+?</figure>', article_text, re.DOTALL)
FIGURE_RE == Pattern({"<figure>"}, {"</figure>"}, {}, TRUE)

FirstPhoto(article_text) ==
    LET m == SearchFrom(article_text, 1, FIGURE_RE) IN
    IF m[1] = 0 THEN None ELSE Some(SubSeq(article_text, m[1], m[2]))

\* extract_article_preview on the text of the article's file: the preview,
\* or the exception raised; joined is intro_text before the trailing tag is
\* removed, when the code got that far.
extract_article_preview(id, article_text) ==
    LET paragraphs == Split(article_text, "<p>")
        c == CollectIntro(paragraphs, 1, << <<>> >>)
        joined == JoinIntro(c.list)
    IN  IF ~c.ok
        THEN [status |-> "IndexError", id |-> id, joined |-> None,
              intro_text |-> <<>>, first_photo |-> None]
        ELSE IF TagIndex(joined) = 0
        THEN [status |-> "ValueError", id |-> id, joined |-> Some(joined),
              intro_text |-> <<>>, first_photo |-> None]
        ELSE [status |-> "ok", id |-> id, joined |-> Some(joined),
              intro_text |-> StripTrailingTag(joined),
              first_photo |-> FirstPhoto(article_text)]

-----------------------------------------------------------------------------
(* generate_preview_html, create_article_previews, generate_landing_page   *)

SECTION_PREVIEW == "<section class=\"article_preview\">"
SECTION_CONTENT == "<section class=\"article_content\">"

generate_preview_html(article_preview) ==
    LET target == <<Target(article_preview.id)>>
        article_title_html ==
            ArticleTitleHtml(<<Title(article_preview.id)>>, HumanReadablePubDate, target)
        article_photo_html ==
            IF ~article_preview.first_photo.none
               /\ article_preview.first_photo.val # <<>>
            THEN article_preview.first_photo.val ELSE <<>>
        continue_reading_link ==
            <<A_HREF>> \o target \o <<QUOTE_GT, "Continue reading...", "</a>">>
        article_content ==
            article_preview.intro_text \o <<SP>> \o continue_reading_link \o <<"</p>">>
    IN  <<SECTION_PREVIEW, NL>> \o article_title_html \o <<NL>>
        \o article_photo_html \o <<NL>> \o article_content
        \o <<NL, "</section>", NL>>

\* create_article_previews without listing.reverse().
create_article_previews_NoReverse(lst) == lst

\* listing.reverse(); the generator of the previews yields them in this order.
create_article_previews(lst) == Reverse(lst)

\* The loop that consumes the generators: aggregate_html, or the exception
\* the first failing extract_article_preview raises out of the loop.
RECURSIVE Aggregate(_, _, _)
Aggregate(articles, texts, aggregate_html) ==
    IF articles = <<>> THEN [status |-> "ok", html |-> aggregate_html]
    ELSE LET preview == extract_article_preview(articles[1], texts[articles[1]]) IN
         IF preview.status # "ok" THEN [status |-> preview.status, html |-> <<>>]
         ELSE Aggregate(Tail(articles), texts,
                        aggregate_html \o generate_preview_html(preview) \o <<NL, NL>>)

generate_landing_page(lst, texts) ==
    LET articles == create_article_previews(lst)
        aggregate == Aggregate(articles, texts, <<>>)
    IN  IF aggregate.status # "ok"
        THEN [status |-> aggregate.status, ret |-> <<>>]
        ELSE [status |-> "ok",
              ret |-> Format(PageTemplate,
                        [p \in DOMAIN Configuration \cup
                               {"{article_title}", "{nav_bar}", "{article_content}",
                                "{home_page_link}"} |->
                            CASE p = "{article_title}" -> Configuration["{blog_title}"]
                              [] p = "{nav_bar}" -> <<>>
                              [] p = "{article_content}" -> aggregate.html
                              [] p = "{home_page_link}" -> <<>>
                              [] OTHER -> Configuration[p]])]

-----------------------------------------------------------------------------
(* generate_post                                                           *)

\* '<h1>.+?</h1>'
H1_RE == Pattern({"<h1>"}, {"</h1>"}, {}, FALSE)
\* '<h2 class="article_title">.+?</a>'
H2_TITLE_RE == Pattern({H2_TITLE}, {"</a>"}, {}, FALSE)
\* '<a href=".+?">' : closed by '">' after a gap, or by the end of a longer
\* token that ends with these two characters.
A_HREF_RE == Pattern({A_HREF}, {QUOTE_GT}, {H2_TITLE, SUBTITLE}, FALSE)
\* '<h2.+?</h2>' : the rest of the opening token is the character .+? needs.
H2_RE == Pattern({"<h2>", H2_TITLE}, {}, {"</h2>"}, FALSE)

\* ArticleTitleMatch with the second pattern cut before its '</a>'.
ArticleTitleMatch_NoClose(html) ==
    LET h1 == SearchFrom(html, 1, H1_RE) IN
    IF h1[1] # 0 THEN h1
    ELSE SearchFrom(html, 1, Pattern({H2_TITLE}, {}, Range(html) \ {NL}, FALSE))

\* re.search('<h1>.+?</h1>'), then re.search('<h2 class="article_title">.+?</a>').
ArticleTitleMatch(html) ==
    LET h1 == SearchFrom(html, 1, H1_RE) IN
    IF h1[1] # 0 THEN h1
    ELSE SearchFrom(html, 1, H2_TITLE_RE)

\* The title extracted from the matched heading.
ExtractTitle(heading) ==
    LET t1 == Replace(Replace(heading, <<"<h1>">>, <<>>), <<"</h1>">>, <<>>)
        t2 == Replace(t1, <<H2_TITLE>>, <<>>)
        t3 == SubAll(t2, A_HREF_RE)
    IN  Replace(t3, <<"</a>">>, <<>>)

\* The article content: the heading and the publication date taken out of
\* the html, the title put back in front of it, a first line without
\* characters dropped.
ArticleContent(html, heading, article_title) ==
    LET pub_date_full == extract_pub_date(html)
        article_title_html == ArticleTitleHtml(article_title, HumanReadablePubDate, <<>>)
        h1 == SubAll(html, H2_RE)
        h2 == Strip(Replace(h1, heading, <<>>))
        h3 == IF ~pub_date_full.none /\ pub_date_full.val # <<>>
              THEN Replace(h2, pub_date_full.val, <<>>) ELSE h2
        article_content == article_title_html \o <<NL>> \o h3
        lines == Split(article_content, NL)
        chars_on_line == lines[1] # <<>> /\ ~IsSpace(lines[1][1])
    IN  IF ~chars_on_line THEN Join(Tail(lines), <<NL>>) ELSE article_content

\* str(Path('../') / target), for a relative target.
ParentPath(target) == <<"../", target>>

\* PreviousArticle with article_index taken for the previous article's index.
PreviousArticle_OffByOne(id, lst) ==
    LET article_index == find_article_index(id, lst) IN
    IF article_index = 0
    THEN IF lst = <<>> THEN <<>> ELSE ParentPath(Target(lst[Len(lst)]))
    ELSE ParentPath(Target(lst[article_index]))

\* The link to the previous blog entry.
PreviousArticle(id, lst) ==
    LET article_index == find_article_index(id, lst) IN
    IF article_index = 0
    THEN IF lst = <<>> THEN <<>> ELSE ParentPath(Target(lst[Len(lst)]))
    ELSE LET previous_article_index == article_index - 1 IN
         IF previous_article_index >= 1
         THEN ParentPath(Target(lst[previous_article_index]))
         ELSE <<>>

\* _NAV_BAR_TEMPLATE.format(...), without the Previous link when it is empty.
NavBar(previous_article) ==
    LET nav_bar == <<A_HREF>> \o previous_article
                   \o <<QUOTE_GT, "Previous", "</a>", SP, A_HREF, "../", QUOTE_GT,
                        "Home", "</a>">>
    IN  IF previous_article = <<>>
        THEN Replace(nav_bar, <<A_HREF, QUOTE_GT, "Previous", "</a>">>, <<>>)
        ELSE nav_bar

\* The rest of generate_post once the title is known: the link it computes
\* and the string it returns.
RenderPost(art, heading, article_title, lst) ==
    LET article_content == ArticleContent(art.html, heading, article_title)
        article_content_html ==
            <<SECTION_CONTENT, NL>> \o article_content \o <<NL, "</section>">>
        previous_article == PreviousArticle(art.id, lst)
    IN  [status |-> "ok", title |-> Some(article_title),
         previous_article |-> previous_article,
         ret |-> Format(PageTemplate,
                   [p \in DOMAIN Configuration \cup
                          {"{article_title}", "{nav_bar}", "{article_content}",
                           "{home_page_link}"} |->
                       CASE p = "{article_title}" -> article_title
                         [] p = "{nav_bar}" -> NavBar(previous_article)
                         [] p = "{article_content}" -> article_content_html
                         [] p = "{home_page_link}" -> <<"../">>
                         [] OTHER -> Configuration[p]])]

\* generate_post with the title added to the one the article already has.
generate_post_AddsTitle(art, lst) ==
    LET m == ArticleTitleMatch(art.html) IN
    IF m[1] = 0
    THEN [status |-> "ValueError", title |-> art.title, previous_article |-> <<>>,
          ret |-> <<>>]
    ELSE LET heading == SubSeq(art.html, m[1], m[2]) IN
         RenderPost(art, heading, art.title.val \o ExtractTitle(heading), lst)

\* generate_post(article) against the listing: the title it stores on the
\* article, the link it computes and the string it returns, or the
\* ValueError it raises before any of them.
generate_post(art, lst) ==
    LET m == ArticleTitleMatch(art.html) IN
    IF m[1] = 0
    THEN [status |-> "ValueError", title |-> art.title, previous_article |-> <<>>,
          ret |-> <<>>]
    ELSE LET heading == SubSeq(art.html, m[1], m[2]) IN
         RenderPost(art, heading, ExtractTitle(heading), lst)

-----------------------------------------------------------------------------
(* The inputs.                                                             *)

PubAlphabet == {"<Published", "=", SP, NL, ">", "x"}
TextAlphabet == {"<p>", "</p>", "<h1>", "<figure>", "</figure>", SP, "x"}
HtmlAlphabet == {"<h1>", "</h1>", H2_TITLE, A_HREF, QUOTE_GT, "</a>", "<em>", NL, "x"}

\* A post as the Markdown translation gives it, a post under the title block
\* of its preview, and a post under the title block generate_post itself
\* writes (an empty article_path).
MarkdownPost ==
    <<"<h1>", "x", "</h1>", NL, "<Published", SP, "=", SP, "x", ">", NL,
      "<p>", "x", "</p>", NL, "<p>", "x", "</p>">>
PreviewStylePost ==
    ArticleTitleHtml(<<"x">>, HumanReadablePubDate, <<"a.html">>)
    \o <<NL, "<p>", "x", "</p>">>
RenderedPost ==
    ArticleTitleHtml(<<"x">>, HumanReadablePubDate, <<>>) \o <<NL, "<p>", "x", "</p>">>
SamplePosts == {MarkdownPost, PreviewStylePost, RenderedPost}

\* Article files for the landing page: one with a figure, one without, one
\* that opens with its first paragraph, one whose paragraph is never closed.
SampleTexts ==
    { <<"<h1>", "x", "</h1>", NL, "<p>", "x", "</p>", NL, "<figure>", "x", "</figure>",
        NL, "<p>", "x", "</p>", NL, "<p>", "x", "</p>">>,
      <<"<h1>", "x", "</h1>", NL, "<p>", "x", SP, "x", "</p>">>,
      <<"<p>", "x", "</p>", "<p>", "x", "</p>">>,
      <<"<h1>", "x", "</h1>", NL, "x">> }

\* The listings: every article at most once, oldest first.
Listings ==
    {l \in UNION {[1..k -> Ids] : k \in 0..MaxListing} :
        \A i, j \in DOMAIN l : i # j => l[i] # l[j]}

NoCall == [op |-> "none", status |-> "none"]
NewArticle(id, html) == [id |-> id, html |-> html, title |-> None]
\* Article.title before any rendering: unset, or set from an earlier run.
InitialTitles == {None, Some(<<"old title">>)}
NoFiles == [i \in Ids |-> <<>>]

-----------------------------------------------------------------------------
(* The operations.                                                         *)

ExtractPubDate ==
    /\ last' = [op |-> "extract_pub_date", status |-> "ok",
                ret |-> extract_pub_date(article.html)]
    /\ UNCHANGED <<listing, article, files, posts>>

ExtractArticlePreview ==
    /\ last' = [op |-> "extract_article_preview"]
               @@ extract_article_preview(article.id, files[article.id])
    /\ UNCHANGED <<listing, article, files, posts>>

GeneratePost ==
    /\ Len(posts) < MaxRenders
    /\ LET r == generate_post(article, listing) IN
       /\ article' = [article EXCEPT !.title = r.title]
       /\ posts' = IF r.status = "ok" THEN Append(posts, r.ret) ELSE posts
       /\ last' = [op |-> "generate_post", status |-> r.status,
                   previous_article |-> r.previous_article, ret |-> r.ret]
    /\ UNCHANGED <<listing, files>>

GenerateLandingPage ==
    /\ last' = [op |-> "generate_landing_page"] @@ generate_landing_page(listing, files)
    /\ UNCHANGED <<listing, article, files, posts>>

-----------------------------------------------------------------------------
(* The specifications: one per operation, its inputs enumerated.           *)

InitPubDate ==
    /\ article \in {NewArticle(1, h) : h \in StringsUpTo(PubAlphabet, MaxPubLen)}
    /\ listing = <<>> /\ files = NoFiles /\ posts = <<>> /\ last = NoCall

SpecPubDate == InitPubDate /\ [][ExtractPubDate]_vars

InitPreview ==
    /\ article = NewArticle(1, <<>>)
    /\ files \in {[i \in Ids |-> IF i = 1 THEN t ELSE <<>>] :
                    t \in StringsUpTo(TextAlphabet, MaxTextLen)}
    /\ listing = <<>> /\ posts = <<>> /\ last = NoCall

SpecPreview == InitPreview /\ [][ExtractArticlePreview]_vars

InitLanding ==
    /\ article = NewArticle(1, <<>>)
    /\ files \in [Ids -> SampleTexts]
    /\ listing \in Listings
    /\ posts = <<>> /\ last = NoCall

SpecLanding == InitLanding /\ [][GenerateLandingPage]_vars

\* Rendering a post, every html against a few listings.
InitPost ==
    /\ \E h \in StringsUpTo(HtmlAlphabet, MaxHtmlLen), t \in InitialTitles :
          article = [NewArticle(1, h) EXCEPT !.title = t]
    /\ listing \in {<<>>, <<2, 1>>}
    /\ files = NoFiles /\ posts = <<>> /\ last = NoCall

SpecPost == InitPost /\ [][GeneratePost]_vars

\* Rendering a post, every listing against a few htmls.
InitNav ==
    /\ \E i \in Ids, h \in SamplePosts, t \in InitialTitles :
          article = [NewArticle(i, h) EXCEPT !.title = t]
    /\ listing \in Listings
    /\ files = NoFiles /\ posts = <<>> /\ last = NoCall

SpecNav == InitNav /\ [][GeneratePost]_vars

-----------------------------------------------------------------------------
(* The claims.                                                             *)

\* A token that is a tag, or a part of one.
IsTagToken(t) == StartsLT(t) \/ EndsGT(t)

\* C1: generate_post computes the previous-post link from the listing: the
\* target of listing[i-1] under '../' when the article is found at index
\* i > 0 (0-based), empty when it is found at index 0, the target of the
\* last entry under '../' when it is not found in a non-empty listing, and
\* empty whenever the listing is empty.
C1_PreviousLink ==
    (last.op = "generate_post" /\ last.status = "ok") =>
        /\ \A i \in DOMAIN listing :
              listing[i] = article.id =>
                 last.previous_article =
                    IF i > 1 THEN <<"../", Target(listing[i - 1])>> ELSE <<>>
        /\ (article.id \notin Range(listing) /\ listing # <<>>) =>
              last.previous_article = <<"../", Target(listing[Len(listing)])>>
        /\ listing = <<>> => last.previous_article = <<>>

C1_Witness ==
    /\ last.op = "generate_post" /\ last.status = "ok"
    /\ Len(listing) >= 3
    /\ listing[3] = article.id
    /\ last.previous_article = <<"../", Target(listing[2])>>

\* The html has no '<h1>' with a '</h1>' after it and no title block
\* '<h2 class="article_title">' with a '</a>' after it.
NoTitleHeading(html) ==
    \A i, j \in DOMAIN html :
        i < j => /\ ~(html[i] = "<h1>" /\ html[j] = "</h1>")
                 /\ ~(html[i] = H2_TITLE /\ html[j] = "</a>")

\* C2: on an article whose html has neither an <h1> heading nor a title
\* block, generate_post raises, returns no string to the caller and leaves
\* the article's title as it was.
C2_NoHeadingRaises ==
    [][NoTitleHeading(article.html) =>
          /\ last'.op = "generate_post" /\ last'.status = "ValueError"
          /\ posts' = posts
          /\ article'.title = article.title]_vars

C2_Witness ==
    /\ last.op = "generate_post" /\ last.status = "ValueError"
    /\ NoTitleHeading(article.html)
    /\ "<h1>" \in Range(article.html)
    /\ article.title = Some(<<"old title">>)
    /\ posts = <<>>

\* C3: on an article whose html has an <h1> heading or a title block,
\* generate_post stores a title that is plain text: no tag is left in it.
C3_TitleIsPlainText ==
    (last.op = "generate_post" /\ ~NoTitleHeading(article.html)) =>
        /\ last.status = "ok"
        /\ ~article.title.none
        /\ \A k \in DOMAIN article.title.val : ~IsTagToken(article.title.val[k])

\* A marker <Published = X> at positions i..j: the keyword, '=' with
\* whitespace around it, a value X of one character or more that has no '>'
\* and no newline in it, and the closing '>'.
IsPubMarker(s, i, j) ==
    /\ s[i] = "<Published"
    /\ s[j] = ">"
    /\ \E eq \in (i + 1)..(j - 2) :
          /\ s[eq] = "="
          /\ \A k \in (i + 1)..(eq - 1) : IsSpace(s[k])
          /\ \E x \in (eq + 1)..(j - 1) :
                /\ \A k \in (eq + 1)..(x - 1) : IsSpace(s[k])
                /\ \A k \in x..(j - 1) : s[k] \notin {">", NL}

HasPubMarker(s) == \E i, j \in DOMAIN s : IsPubMarker(s, i, j)

\* C4: extract_pub_date returns the first marker <Published = X> of the
\* html, which ends at the marker's first '>', and None when the html has no
\* marker.
C4_FirstMarker ==
    last.op = "extract_pub_date" =>
        IF HasPubMarker(article.html)
        THEN \E i, j \in DOMAIN article.html :
                /\ IsPubMarker(article.html, i, j)
                /\ \A i2, j2 \in DOMAIN article.html :
                      IsPubMarker(article.html, i2, j2) => i <= i2
                /\ last.ret = Some(SubSeq(article.html, i, j))
        ELSE last.ret = None

\* The targets of the previews of a page, in the order the page has them:
\* the target is the fifth token of a preview section.
PreviewTargets(page) ==
    LET starts == SelectSeq([i \in 1..Len(page) |-> i],
                            LAMBDA i : page[i] = SECTION_PREVIEW /\ i + 4 <= Len(page))
    IN  [k \in 1..Len(starts) |-> page[starts[k] + 4]]

\* C5: the landing page has the preview of every entry of the listing once,
\* in the reverse of the listing's order.
C5_ReverseOrder ==
    (last.op = "generate_landing_page" /\ last.status = "ok") =>
        PreviewTargets(last.ret) =
            [k \in 1..Len(listing) |-> Target(listing[Len(listing) + 1 - k])]

C5_Witness ==
    /\ last.op = "generate_landing_page" /\ last.status = "ok"
    /\ Len(listing) >= 3
    /\ PreviewTargets(last.ret)[1] = Target(listing[Len(listing)])

\* The text is a sequence of paragraphs <p>...</p> and nothing else.
IsParagraphs(text) ==
    LET fragments == Split(text, "<p>") IN
    /\ Len(fragments) >= 2
    /\ fragments[1] = <<>>
    /\ \A k \in 2..Len(fragments) :
          /\ Len(fragments[k]) >= 2
          /\ fragments[k][Len(fragments[k])] = "</p>"
          /\ \A n \in 1..(Len(fragments[k]) - 1) : fragments[k][n] # "</p>"

\* The fragments of the text that do not begin, whitespace aside, with '<'.
QualifyingFragments(text) ==
    SelectSeq(Split(text, "<p>"),
              LAMBDA f : Strip(f) # <<>> /\ ~StartsLT(Strip(f)[1]))

\* C6: on a body that is a sequence of paragraphs without a figure,
\* extract_article_preview returns a preview: its intro text is made of the
\* first qualifying fragments only, two at most, and it has no first photo.
C6_ParagraphsPreview ==
    (/\ last.op = "extract_article_preview"
     /\ IsParagraphs(files[article.id])
     /\ "<figure>" \notin Range(files[article.id])) =>
        /\ last.status = "ok"
        /\ last.first_photo = None
        /\ LET q == QualifyingFragments(files[article.id])
               n == IF Len(q) < 2 THEN Len(q) ELSE 2
               joined == Join(<< <<>> >> \o SubSeq(q, 1, n), <<"<p>">>)
           IN  last.intro_text = Slice(joined, 1, Len(joined) - 1)

\* C7: when extraction fails for one article of the listing, the landing
\* page is still made and has the previews of all the other entries.
C7_OthersRendered ==
    last.op = "generate_landing_page" =>
        \A k \in DOMAIN listing :
            extract_article_preview(listing[k], files[listing[k]]).status = "ok" =>
                /\ last.status = "ok"
                /\ Target(listing[k]) \in Range(PreviewTargets(last.ret))

NoParagraphOpen(text) == "<p>" \notin Range(text)

\* C8, as stated: on a body without any '<p>' the intro text is empty
\* before the trailing tag is removed, and the operation fails.
C8_EmptyIntroFails ==
    (last.op = "extract_article_preview" /\ NoParagraphOpen(files[article.id])) =>
        /\ last.status # "ok"
        /\ last.joined.none \/ last.joined.val = <<>>

\* C8, amended: on a body without any '<p>': when the body begins,
\* whitespace aside, with '<', the intro text is empty before the trailing
\* tag is removed and the operation fails; when the body is empty or
\* whitespace alone, the operation fails before the intro text is built;
\* otherwise the intro text is '<p>' and the whole body, and the operation
\* fails exactly when the body has no '</p>'.
C8_Amended ==
    (last.op = "extract_article_preview" /\ NoParagraphOpen(files[article.id])) =>
        LET body == files[article.id] IN
        IF Strip(body) = <<>>
        THEN last.status = "IndexError" /\ last.joined.none
        ELSE IF StartsLT(Strip(body)[1])
        THEN last.status = "ValueError" /\ last.joined = Some(<<>>)
        ELSE /\ last.joined = Some(<<"<p>">> \o body)
             /\ last.status = IF "</p>" \in Range(body) THEN "ok" ELSE "ValueError"

C8_Witness ==
    /\ last.op = "extract_article_preview"
    /\ NoParagraphOpen(files[article.id])
    /\ Len(files[article.id]) >= 3
    /\ files[article.id][1] = "<h1>"
    /\ "</p>" \in Range(files[article.id])
    /\ last.status = "ValueError"
    /\ last.joined = Some(<<>>)

\* C9: rendering the same article twice against the same template, listing,
\* configuration and date returns the same string: the title the first
\* rendering stored on the article does not change the second.
C9_SameOutput ==
    \A i, j \in DOMAIN posts : posts[i] = posts[j]

C9_Witness ==
    /\ Len(posts) = 2
    /\ posts[1] = posts[2]
    /\ ~article.title.none
    /\ article.title # Some(<<"old title">>)

\* C10: a preview's intro_text is the re-joined fragments cut right before
\* their last '</p>' (the earlier ones are kept), and when the re-joined
\* fragments have no '</p>' the operation fails.
C10_CutAtLastClose ==
    (last.op = "extract_article_preview" /\ ~last.joined.none) =>
        LET joined == last.joined.val
            closes == {k \in DOMAIN joined : joined[k] = "</p>"}
        IN  IF closes = {}
            THEN last.status = "ValueError"
            ELSE /\ last.status = "ok"
                 /\ \E k \in closes :
                       /\ \A n \in closes : n <= k
                       /\ last.intro_text = Slice(joined, 1, k - 1)

C10_Witness ==
    /\ last.op = "extract_article_preview" /\ last.status = "ok"
    /\ "</p>" \in Range(last.intro_text)
    /\ Len(last.intro_text) < Len(last.joined.val) - 1

=============================================================================
